---- MODULE Spec2Model ----
(***************************************************************************)
(* Analysis-job orchestrator and job tracker of go-git-analyzer-ollama.    *)
(*                                                                         *)
(*   internal/handler/jobs.go              JobTracker, JobsHandler         *)
(*   internal/handler/analysis_handler.go  RunAnalysis, runAnalysisJob     *)
(*   internal/port (AnalysisEngine)        NewAnalysisEngine,              *)
(*                                         AvailableStrategies             *)
(*   internal/adapter/store                SaveAnalysisResultFull          *)
(*                                                                         *)
(* One job id is modelled.  A channel is named by the number of the stream *)
(* handler that created it.  The subscriber list of the job is a Go slice: *)
(* a backing array (subsArr, whose length is the capacity) and a length    *)
(* (subsLen).  UpdateJob copies the slice header under the lock and walks  *)
(* the backing array after releasing it, so the model keeps the array the  *)
(* walk reads (the live one while it is shared, a private copy once        *)
(* Subscribe has reallocated).                                             *)
(***************************************************************************)
EXTENDS Integers, Sequences, FiniteSets, TLC

VARIABLES
    registered,  \* strategies handed to NewAnalysisEngine, in registration order
    job,         \* t.jobs[id]: NoJob or the JobStatus record
    strategies,  \* the slice RunAnalysis got from ListStrategies
    pc,          \* position of the goroutine that calls UpdateJob
    ret,         \* where that goroutine continues when UpdateJob returns
    i,           \* loop index of runAnalysisJob
    attempt,     \* attempt counter of the retry loop
    err,         \* err of the last RunStrategy call ("" is nil)
    result,      \* result of the last RunStrategy call (its score)
    rows,        \* analysis_results rows, in insertion order
    saves,       \* history: every SaveAnalysisResultFull call and its outcome
    updates,     \* history: every UpdateJob call, its arguments and the job it left
    tries,       \* history: per strategy index, the events of its retry loop
    subsArr,     \* backing array of t.subs[id] (Len = capacity)
    subsLen,     \* len(t.subs[id])
    chans,       \* per channel: buffer and closed flag
    uSnap,       \* UpdateJob: snapshot := *job
    uShared,     \* UpdateJob: subs still aliases the live backing array
    uArr,        \* UpdateJob: the array subs points to once it no longer does
    uLen,        \* UpdateJob: len(subs)
    uIdx,        \* UpdateJob: next index of the range loop
    hpc,         \* per stream handler: position in StreamSSE
    lastRecv,    \* per stream handler: seq of the last snapshot received
    closes,      \* history: per channel, number of close() calls
    delivered,   \* history: per channel, seq of every snapshot put in its buffer
    atComplete,  \* history: channels listed and not full when "complete" was applied
    content,     \* chunkCode: its content argument, a string as a sequence of characters
    maxTokens,   \* chunkCode: its maxTokens argument
    chunks,      \* chunkCode: the slice it returned
    cpc,         \* chunkCode: "idle" before the call, "done" after it
    ragService,  \* h.ragService != nil
    files,       \* the map handed to IndexChunks: path -> content
    ipc,         \* position of the indexing goroutine
    todo,        \* IndexChunks: files the range loop has not visited yet
    cur,         \* IndexChunks: filePath of the current iteration
    vectors,     \* IndexChunks: number of vectors EmbedBatch returned
    batch,       \* StoreBatchEmbeddings: its embeddings argument
    db,          \* embeddings table: committed rows and rows of the open transaction
    ilog,        \* history: per file, what its iteration ended with
    indexErr,    \* what IndexChunks returned ("none" until it returns, "" is nil)
    queries,     \* history: the Query / QueryStream call made and what it returned
    raPc,        \* position of the RunAll call
    raOrder,     \* RunAll: order in which range walks e.strategies
    raIdx,       \* RunAll: index of the range loop
    raResults,   \* RunAll: results
    raErr,       \* RunAll: returned error ("" is nil)
    raRan,       \* history: strategies whose Analyze RunAll called
    clock,       \* minutes since the server started
    deadline,    \* per stream handler: when the channel of time.After delivers
    lastEvent,   \* history: per stream handler, time of the last event written
    repoRow,     \* what GetRepoByID finds for the repo_id of the request
    resp         \* the response of the last RunAnalysis call

vars == <<registered, job, strategies, pc, ret, i, attempt, err, result, rows,
          saves, updates, tries, subsArr, subsLen, chans, uSnap, uShared, uArr,
          uLen, uIdx, hpc, lastRecv, closes, delivered, atComplete, content,
          maxTokens, chunks, cpc, ragService, files, ipc, todo, cur, vectors,
          batch, db, ilog, indexErr, queries, raPc, raOrder, raIdx, raResults,
          raErr, raRan, clock, deadline, lastEvent, repoRow, resp>>

orchVars == <<i, attempt, err, result, rows, saves, tries>>
subsVars == <<subsArr, subsLen>>
updVars  == <<uSnap, uShared, uArr, uLen, uIdx>>
sseVars  == <<hpc, lastRecv, closes>>
chunkVars == <<content, maxTokens, chunks, cpc>>
ragVars  == <<ragService, files, ipc, todo, cur, vectors, batch, db, ilog,
              indexErr, queries>>
engVars  == <<raPc, raOrder, raIdx, raResults, raErr, raRan>>
timeVars == <<clock, deadline, lastEvent>>
sideVars == <<chunkVars, ragVars, engVars>>
reqVars  == <<repoRow, resp>>

----------------------------------------------------------------------------
(* Bounds of the model. *)

MaxStrategies == 2   \* strategies registered with the engine under Spec
MaxSubs == 3         \* stream handlers (one channel each)
MaxCalls == 3        \* UpdateJob calls made by the API client of SpecTracker
MaxContent == 7       \* characters of the content given to chunkCode under SpecChunk
MaxTokens == 2        \* largest maxTokens given to chunkCode under SpecChunk
MaxFiles == 2         \* files in the map given to IndexChunks
MaxClock == 6         \* minutes counted under SpecTimed

(* Program constants. *)

ChanCap == 10        \* make(chan JobStatus, 10)
MaxRetries == 2      \* maxRetries := 2
StreamTimeout == 5   \* time.After(5 * time.Minute), in minutes
ChunkTokens == 512   \* chunkCode(content, 512)
SearchLimit == 10    \* SearchSimilar(ctx, repoID, queryVector, 10)

AllStrategies ==
    <<"architecture", "code_quality", "functionality", "devops", "security">>

NoJob == [Status |-> "none"]
NoSnap == [Status |-> "none"]
Handlers == 1 .. MaxSubs
Terminal == {"complete", "error"}

Range(s) == {s[k] : k \in 1 .. Len(s)}

----------------------------------------------------------------------------
(* JobTracker (jobs.go). *)

(* CreateJob: the JobStatus stored for a new job. *)
CreateJob(total) ==
    [Status |-> "running", Progress |-> 0, Total |-> total, Current |-> "",
     Results |-> <<>>, CompletedAt |-> 0]

(* UpdateJob, lines 65-73: the job record after the assignments made under
   the lock.  now stands for time.Now(). *)
UpdatedJob(j, strategy, progress, status, now) ==
    [j EXCEPT !.Progress = progress,
              !.Current = strategy,
              !.Status = status,
              !.Results = IF strategy # "" /\ status # "error"
                          THEN Append(@, strategy) ELSE @,
              !.CompletedAt = IF status \in Terminal THEN now ELSE @]

(* The channels of the subscriber list, in order. *)
Subs == [k \in 1 .. subsLen |-> subsArr[k]]

(* UpdateJob, the part under the lock (lines 59-76), called by the goroutine
   at pc; it continues at retpc when the notification loop is over.  An
   unknown id returns at once. *)
UpdateJobLocked(strategy, progress, status, retpc) ==
    /\ IF job = NoJob
       THEN /\ pc' = retpc
            /\ UNCHANGED <<job, ret, updVars, atComplete>>
       ELSE /\ job' = UpdatedJob(job, strategy, progress, status, Len(updates) + 1)
            /\ uSnap' = [job |-> job', seq |-> Len(updates) + 1]
            /\ uShared' = TRUE
            /\ uArr' = <<>>
            /\ uLen' = subsLen
            /\ uIdx' = 1
            /\ atComplete' = IF status = "complete"
                             THEN {c \in Range(Subs) : Len(chans[c].buf) < ChanCap}
                             ELSE atComplete
            /\ IF subsLen = 0
               THEN pc' = retpc /\ ret' = ret
               ELSE pc' = "notify" /\ ret' = retpc
    /\ updates' = Append(updates, [strategy |-> strategy, progress |-> progress,
                                   status |-> status, stored |-> job'])

(* The channel the range loop of UpdateJob reads at index uIdx. *)
NotifyElem == IF uShared THEN subsArr[uIdx] ELSE uArr[uIdx]

(* select { case ch <- snapshot: default: } on an open channel: the buffer
   after the statement. *)
SendOrDropFront(buf, snap) ==
    IF Len(buf) < ChanCap THEN <<snap>> \o buf ELSE buf
SendOrDrop(buf, snap) ==
    IF Len(buf) < ChanCap THEN Append(buf, snap) ELSE buf

(* The select of lines 80-83 has a default case: it never waits, whatever
   the buffer holds. *)
SelectBlocking(buf) == Len(buf) < ChanCap
SelectReady(buf) == TRUE

(* UpdateJob, one iteration of the notification loop (lines 79-84).  A send
   on a closed channel panics, and the panic of a goroutine nobody recovers
   ends the process. *)
Notify ==
    /\ pc = "notify"
    /\ uIdx <= uLen
    /\ LET ch == NotifyElem IN
       IF chans[ch].closed
       THEN /\ pc' = "panic"
            /\ UNCHANGED <<chans, delivered, ret, uIdx>>
       ELSE /\ SelectReady(chans[ch].buf)
            /\ chans' = [chans EXCEPT ![ch].buf = SendOrDrop(@, uSnap)]
            /\ delivered' = [delivered EXCEPT ![ch] =
                                IF Len(chans[ch].buf) < ChanCap
                                THEN Append(@, uSnap.seq) ELSE @]
            /\ uIdx' = uIdx + 1
            /\ IF uIdx = uLen
               THEN pc' = ret /\ ret' = ret
               ELSE pc' = "notify" /\ ret' = ret
    /\ UNCHANGED <<reqVars, sideVars, timeVars, registered, job, strategies, orchVars, updates, subsVars,
                   uSnap, uShared, uArr, uLen, sseVars, atComplete>>

----------------------------------------------------------------------------
(* AnalysisEngine (internal/port) and RunAnalysis. *)

(* NewAnalysisEngine: the strategies map, keyed by name. *)
NewAnalysisEngine(regs) == Range(regs)

(* AvailableStrategies: the names of the map in the order of one iteration
   over it.  Go leaves the iteration order of a map unspecified and varies
   it from one iteration to the next, so every order is a possible result. *)
AvailableStrategies(engine) ==
    {order \in [1 .. Cardinality(engine) -> engine] :
        \A a, b \in 1 .. Cardinality(engine) : a # b => order[a] # order[b]}

(* The repository row GetRepoByID returns (found = FALSE is its error), and
   buildAnalysisRequest (analysis_handler.go, lines 256-264): the error it
   returns, "" for nil.  The walk of lines 289-319 ignores every error. *)
NoRepo == [found |-> FALSE, LocalPath |-> "", Status |-> ""]
ReadyRepo == [found |-> TRUE, LocalPath |-> "/repos/r1", Status |-> "ready"]
Repos ==
    {NoRepo} \cup [found : {TRUE}, LocalPath : {"", "/repos/r1"},
                   Status : {"cloning", "ready"}]

(* The same without the test of Status. *)
buildRequestAnyStatus(r) ==
    IF ~r.found THEN "repo not found"
    ELSE IF r.LocalPath = "" THEN "repo not cloned or not ready"
    ELSE ""
buildAnalysisRequest(r) ==
    IF ~r.found THEN "repo not found"
    ELSE IF r.LocalPath = "" \/ r.Status # "ready"
         THEN "repo not cloned or not ready"
    ELSE ""

(* The response of RunAnalysis: none yet, an error, or 202 with the job id. *)
NoResponse == [code |-> 0, error |-> ""]
Accepted == [code |-> 202, error |-> ""]
ErrorResponse(code, msg) == [code |-> code, error |-> msg]

(* RunAnalysis, lines 57-75: the returns that come before CreateJob.  No
   user in the context, a body that does not bind, a request that cannot be
   built: each returns its error and nothing else happens. *)
RunAnalysisRejected(authed, bound) ==
    /\ pc = "idle"
    /\ ~authed \/ ~bound \/ buildAnalysisRequest(repoRow) # ""
    /\ resp' = IF ~authed THEN ErrorResponse(401, "unauthorized")
               ELSE IF ~bound THEN ErrorResponse(400, "invalid body")
               ELSE ErrorResponse(400, buildAnalysisRequest(repoRow))
    /\ UNCHANGED <<repoRow, sideVars, timeVars, registered, job, strategies, pc,
                   ret, orchVars, updates, subsVars, chans, updVars, sseVars,
                   delivered, atComplete>>

(* RunAnalysis, lines 57-89, for a request that can be built: list the
   strategies, create the job, start runAnalysisJob, answer 202. *)
RunAnalysis ==
    /\ pc = "idle"
    /\ buildAnalysisRequest(repoRow) = ""
    /\ \E order \in AvailableStrategies(NewAnalysisEngine(registered)) :
          /\ strategies' = order
          /\ job' = CreateJob(Len(order))
    /\ pc' = "start"
    /\ i' = 0
    /\ resp' = Accepted
    /\ UNCHANGED <<repoRow, sideVars, timeVars, registered, ret, attempt, err, result, rows, saves, tries,
                   updates, subsVars, chans, updVars, sseVars, delivered,
                   atComplete>>

----------------------------------------------------------------------------
(* runAnalysisJob (analysis_handler.go, lines 181-228). *)

(* The progress carried by the update that starts strategy index k, and by
   the one that follows its save. *)
StartProgress(k) == k
AdvanceProgressTwice(k) == k + 2
AdvanceProgress(k) == k + 1

(* The row SaveAnalysisResultFull inserts for a real result (line 220) and
   for a failure report (lines 203-205). *)
ResultRowNoScore(strategy, score) ==
    [strategy |-> strategy, kind |-> "result", error |-> "", score |-> 0]
ResultRow(strategy, score) ==
    [strategy |-> strategy, kind |-> "result", error |-> "", score |-> score]
FailureRow(strategy, e) ==
    [strategy |-> strategy, kind |-> "failure", error |-> e, score |-> 0]

(* Line 182: the head of the strategy loop with a strategy left. *)
JobStart ==
    /\ pc = "start"
    /\ i < Len(strategies)
    /\ UpdateJobLocked(strategies[i + 1], StartProgress(i), "running", "attempt")
    /\ attempt' = 0
    /\ tries' = Append(tries, <<>>)
    /\ UNCHANGED <<reqVars, sideVars, timeVars, registered, strategies, i, err, result, rows, saves,
                   subsVars, chans, sseVars, delivered>>

(* Lines 193-198: one RunStrategy call that returns a result. *)
AttemptOk(score) ==
    /\ pc = "attempt"
    /\ err' = ""
    /\ result' = score
    /\ tries' = [tries EXCEPT ![i + 1] = Append(@, [ev |-> "ok", score |-> score])]
    /\ pc' = "save"
    /\ UNCHANGED <<reqVars, sideVars, timeVars, registered, job, strategies, ret, i, attempt, rows, saves,
                   updates, subsVars, chans, updVars, sseVars, delivered,
                   atComplete>>

(* Line 188: the condition of the retry loop, attempt <= maxRetries. *)
RetryLeftOneMore(a) == a <= MaxRetries + 1
RetryLeft(a) == a <= MaxRetries

(* Lines 193-198: one RunStrategy call that returns an error; the loop
   goes on while attempt <= maxRetries. *)
AttemptErr ==
    /\ pc = "attempt"
    /\ err' = "provider error"
    /\ tries' = [tries EXCEPT ![i + 1] = Append(@, [ev |-> "err", score |-> 0])]
    /\ attempt' = attempt + 1
    /\ pc' = IF RetryLeft(attempt + 1) THEN "sleep" ELSE "savefail"
    /\ UNCHANGED <<reqVars, sideVars, timeVars, registered, job, strategies, ret, i, result, rows, saves,
                   updates, subsVars, chans, updVars, sseVars, delivered,
                   atComplete>>

(* Lines 189-192: time.Sleep before a retry. *)
RetrySleep ==
    /\ pc = "sleep"
    /\ tries' = [tries EXCEPT ![i + 1] = Append(@, [ev |-> "sleep", score |-> 0])]
    /\ pc' = "attempt"
    /\ UNCHANGED <<reqVars, sideVars, timeVars, registered, job, strategies, ret, i, attempt, err, result,
                   rows, saves, updates, subsVars, chans, updVars, sseVars,
                   delivered, atComplete>>

(* SaveAnalysisResultFull: the INSERT either adds the row or returns an
   error and adds nothing. *)
SaveAnalysisResultFull(row, ok) ==
    /\ rows' = IF ok THEN Append(rows, row) ELSE rows
    /\ saves' = Append(saves, [row |-> row, ok |-> ok])

(* Lines 200-205: the failure report; the error of the save is discarded. *)
SaveFailure(ok) ==
    /\ pc = "savefail"
    /\ SaveAnalysisResultFull(FailureRow(strategies[i + 1], err), ok)
    /\ pc' = "advance"
    /\ UNCHANGED <<reqVars, sideVars, timeVars, registered, job, strategies, ret, i, attempt, err, result,
                   tries, updates, subsVars, chans, updVars, sseVars,
                   delivered, atComplete>>

(* Lines 210-222: the real result; the error of the save is logged. *)
SaveResult(ok) ==
    /\ pc = "save"
    /\ SaveAnalysisResultFull(ResultRow(strategies[i + 1], result), ok)
    /\ pc' = "advance"
    /\ UNCHANGED <<reqVars, sideVars, timeVars, registered, job, strategies, ret, i, attempt, err, result,
                   tries, updates, subsVars, chans, updVars, sseVars,
                   delivered, atComplete>>

(* Lines 206 and 224: the update that advances progress, then the next
   iteration. *)
JobAdvance ==
    /\ pc = "advance"
    /\ UpdateJobLocked(strategies[i + 1], AdvanceProgress(i), "running", "start")
    /\ i' = i + 1
    /\ UNCHANGED <<reqVars, sideVars, timeVars, registered, strategies, attempt, err, result, rows, saves,
                   tries, subsVars, chans, sseVars, delivered>>

(* Line 227: the loop is over. *)
JobComplete ==
    /\ pc = "start"
    /\ i >= Len(strategies)
    /\ UpdateJobLocked("", Len(strategies), "complete", "done")
    /\ UNCHANGED <<reqVars, sideVars, timeVars, registered, strategies, orchVars, subsVars, chans, sseVars,
                   delivered>>

----------------------------------------------------------------------------
(* The state after construction (config.go): an engine with its strategies
   registered, an empty tracker, an empty store, no request served yet. *)

Scores == {0, 7}

Fresh(regs) ==
    /\ registered = regs
    /\ ret = "idle"
    /\ i = 0
    /\ attempt = 0
    /\ err = ""
    /\ result = 0
    /\ rows = <<>>
    /\ saves = <<>>
    /\ updates = <<>>
    /\ tries = <<>>
    /\ subsArr = <<>>
    /\ subsLen = 0
    /\ chans = [h \in Handlers |-> [buf |-> <<>>, closed |-> FALSE]]
    /\ uSnap = NoSnap
    /\ uShared = TRUE
    /\ uArr = <<>>
    /\ uLen = 0
    /\ uIdx = 1
    /\ hpc = [h \in Handlers |-> "idle"]
    /\ lastRecv = [h \in Handlers |-> 0]
    /\ closes = [h \in Handlers |-> 0]
    /\ delivered = [h \in Handlers |-> <<>>]
    /\ atComplete = {}

(* Nothing but the job: chunkCode not called, no indexing (h.ragService is
   nil), RunAll not called, and the clock at the server's start. *)
ChunkIdle ==
    /\ content = <<>>
    /\ maxTokens = 0
    /\ chunks = <<>>
    /\ cpc = "idle"

RagOff ==
    /\ ragService = FALSE
    /\ files = <<>>
    /\ ipc = "off"
    /\ todo = {}
    /\ cur = 0
    /\ vectors = 0
    /\ batch = <<>>
    /\ db = [table |-> <<>>, tx |-> <<>>]
    /\ ilog = <<>>
    /\ indexErr = "none"
    /\ queries = <<>>

EngineIdle ==
    /\ raPc = "idle"
    /\ raOrder = <<>>
    /\ raIdx = 0
    /\ raResults = <<>>
    /\ raErr = ""
    /\ raRan = <<>>

ClockZero ==
    /\ clock = 0
    /\ deadline = [h \in Handlers |-> 0]
    /\ lastEvent = [h \in Handlers |-> 0]

RequestIdle ==
    /\ repoRow = ReadyRepo
    /\ resp = NoResponse

InitWith(regs) ==
    /\ Fresh(regs)
    /\ ChunkIdle /\ RagOff /\ EngineIdle /\ ClockZero /\ RequestIdle
    /\ job = NoJob
    /\ strategies = <<>>
    /\ pc = "idle"

(* Spec: one analysis job from the request to its last update, with every
   outcome of the Analyze attempts and of the saves, nobody subscribed. *)
Init ==
    \E n \in 0 .. MaxStrategies : InitWith(SubSeq(AllStrategies, 1, n))

Orchestrator ==
    \/ JobStart
    \/ \E score \in Scores : AttemptOk(score)
    \/ AttemptErr
    \/ RetrySleep
    \/ \E ok \in BOOLEAN : SaveFailure(ok)
    \/ \E ok \in BOOLEAN : SaveResult(ok)
    \/ JobAdvance
    \/ JobComplete

Next ==
    \/ RunAnalysis
    \/ Orchestrator

Spec == Init /\ [][Next]_vars

(* SpecRequest: the same job, behind a RunAnalysis request for a repository
   in any state, made by any client. *)
InitRequest ==
    /\ \E n \in 0 .. MaxStrategies : Fresh(SubSeq(AllStrategies, 1, n))
    /\ ChunkIdle /\ RagOff /\ EngineIdle /\ ClockZero
    /\ job = NoJob
    /\ strategies = <<>>
    /\ pc = "idle"
    /\ repoRow \in Repos
    /\ resp = NoResponse

NextRequest ==
    \/ \E authed, bound \in BOOLEAN : RunAnalysisRejected(authed, bound)
    \/ RunAnalysis
    \/ Orchestrator

SpecRequest == InitRequest /\ [][NextRequest]_vars

----------------------------------------------------------------------------
(* Subscribe, Unsubscribe and StreamSSE (jobs.go). *)

(* The capacity append gives a slice of pointers that has outgrown its
   backing array: 1, 2, 4, 8. *)
GrownCap(cap) == IF cap = 0 THEN 1 ELSE 2 * cap

(* Subscribe, line 104: append(t.subs[id], ch).  The array after the call;
   it is the same array, written in place, while the capacity allows. *)
AppendSub(arr, len, ch) ==
    IF len < Len(arr)
    THEN [arr EXCEPT ![len + 1] = ch]
    ELSE [k \in 1 .. GrownCap(Len(arr)) |->
             IF k <= len THEN arr[k] ELSE IF k = len + 1 THEN ch ELSE 0]

(* Unsubscribe, lines 112-118: append(subs[:i], subs[i+1:]...) moves the
   tail one place to the left inside the same array; the last slot keeps
   its old value. *)
RemoveSub(arr, len, ch) ==
    IF \E k \in 1 .. len : arr[k] = ch
    THEN LET at == CHOOSE k \in 1 .. len :
                      arr[k] = ch /\ \A m \in 1 .. k - 1 : arr[m] # ch
         IN [k \in 1 .. Len(arr) |->
                IF k >= at /\ k < len THEN arr[k + 1] ELSE arr[k]]
    ELSE arr

RemovedLenKept(arr, len, ch) == len
RemovedLen(arr, len, ch) ==
    IF \E k \in 1 .. len : arr[k] = ch THEN len - 1 ELSE len

(* StreamSSE, lines 153-165: read the job; a job that is already terminal
   is answered with one event and no subscription.  A request for an
   unknown id is answered 404 and changes nothing.  Handlers are numbered
   in the order in which their requests arrive. *)
SseGetJob(h) ==
    /\ pc # "panic"
    /\ hpc[h] = "idle"
    /\ \A g \in 1 .. h - 1 : hpc[g] # "idle"
    /\ job # NoJob
    /\ hpc' = [hpc EXCEPT ![h] = IF job.Status \in Terminal
                                 THEN "done" ELSE "subscribe"]
    /\ UNCHANGED <<reqVars, sideVars, timeVars, registered, job, strategies, pc, ret, orchVars, updates,
                   subsVars, chans, updVars, lastRecv, closes, delivered,
                   atComplete>>

(* StreamSSE, line 167: Subscribe.  An UpdateJob that is walking the old
   array keeps it when append allocates a new one. *)
SseSubscribe(h) ==
    /\ pc # "panic"
    /\ hpc[h] = "subscribe"
    /\ subsArr' = AppendSub(subsArr, subsLen, h)
    /\ subsLen' = subsLen + 1
    /\ IF pc = "notify" /\ uShared /\ subsLen >= Len(subsArr)
       THEN uShared' = FALSE /\ uArr' = subsArr
       ELSE UNCHANGED <<uShared, uArr>>
    /\ hpc' = [hpc EXCEPT ![h] = "loop"]
    /\ deadline' = [deadline EXCEPT ![h] = clock + StreamTimeout]
    /\ lastEvent' = [lastEvent EXCEPT ![h] = clock]
    /\ UNCHANGED <<reqVars, sideVars, clock, registered, job, strategies, pc, ret, orchVars, updates,
                   chans, uSnap, uLen, uIdx, lastRecv, closes, delivered,
                   atComplete>>

(* StreamSSE, lines 185-199: receive one update; a terminal one ends the
   stream. *)
SseRecv(h) ==
    /\ pc # "panic"
    /\ hpc[h] = "loop"
    /\ chans[h].buf # <<>>
    /\ LET update == Head(chans[h].buf) IN
          /\ lastRecv' = [lastRecv EXCEPT ![h] = update.seq]
          /\ hpc' = [hpc EXCEPT ![h] = IF update.job.Status \in Terminal
                                       THEN "unsub" ELSE "loop"]
    /\ chans' = [chans EXCEPT ![h].buf = Tail(@)]
    /\ lastEvent' = [lastEvent EXCEPT ![h] = clock]
    /\ UNCHANGED <<reqVars, sideVars, clock, deadline, registered, job, strategies, pc, ret, orchVars, updates,
                   subsVars, updVars, closes, delivered, atComplete>>

(* Unsubscribe (lines 109-120): remove the channel from the list and close
   it.  The handler was the only reader of the channel and is gone after
   this, so what the buffer still held can never be read: the model drops
   it, with the handler's locals and the channel's history. *)
Unsubscribe(h) ==
    /\ subsArr' = RemoveSub(subsArr, subsLen, h)
    /\ subsLen' = RemovedLen(subsArr, subsLen, h)
    /\ chans' = [chans EXCEPT ![h] = [buf |-> <<>>, closed |-> TRUE]]
    /\ closes' = [closes EXCEPT ![h] = @ + 1]
    /\ lastRecv' = [lastRecv EXCEPT ![h] = 0]
    /\ delivered' = [delivered EXCEPT ![h] = <<>>]
    /\ deadline' = [deadline EXCEPT ![h] = 0]
    /\ lastEvent' = [lastEvent EXCEPT ![h] = 0]

(* StreamSSE, lines 200-202 and 175: the timer fires, the writer returns
   and its deferred Unsubscribe runs. *)
SseTimeout(h) ==
    /\ pc # "panic"
    /\ hpc[h] = "loop"
    /\ Unsubscribe(h)
    /\ hpc' = [hpc EXCEPT ![h] = "done"]
    /\ UNCHANGED <<reqVars, sideVars, clock, registered, job, strategies, pc, ret, orchVars, updates,
                   updVars, atComplete>>

(* StreamSSE, lines 197-199 and 175: the deferred Unsubscribe of a writer
   that returned after a terminal event. *)
SseUnsubscribe(h) ==
    /\ pc # "panic"
    /\ hpc[h] = "unsub"
    /\ Unsubscribe(h)
    /\ hpc' = [hpc EXCEPT ![h] = "done"]
    /\ UNCHANGED <<reqVars, sideVars, clock, registered, job, strategies, pc, ret, orchVars, updates,
                   updVars, atComplete>>

StreamSSE(h) ==
    \/ SseGetJob(h)
    \/ SseSubscribe(h)
    \/ SseRecv(h)
    \/ SseTimeout(h)
    \/ SseUnsubscribe(h)

(* SpecStream: one job of one strategy whose Analyze and save succeed, and
   the stream handlers that watch it. *)
InitStream == InitWith(SubSeq(AllStrategies, 1, 1))

NextStream ==
    \/ RunAnalysis
    \/ JobStart
    \/ AttemptOk(7)
    \/ SaveResult(TRUE)
    \/ JobAdvance
    \/ JobComplete
    \/ Notify
    \/ \E h \in Handlers : StreamSSE(h)

SpecStream == InitStream /\ [][NextStream]_vars

----------------------------------------------------------------------------
(* SpecTracker: the tracker under a client that calls CreateJob once and
   UpdateJob with any arguments, before and after, nobody subscribed. *)

ApiCreateJob(total) ==
    /\ pc = "idle"
    /\ job' = CreateJob(total)
    /\ pc' = "api"
    /\ UNCHANGED <<reqVars, sideVars, timeVars, registered, strategies, ret, orchVars, updates, subsVars,
                   chans, updVars, sseVars, delivered, atComplete>>

ApiUpdateJob(strategy, progress, status) ==
    /\ pc \in {"idle", "api"}
    /\ Len(updates) < MaxCalls
    /\ UpdateJobLocked(strategy, progress, status, pc)
    /\ UNCHANGED <<reqVars, sideVars, timeVars, registered, strategies, orchVars, subsVars, chans, sseVars,
                   delivered>>

ApiStrategies == {"", AllStrategies[1]}
ApiStatuses == {"running", "complete", "error"}

InitTracker == InitWith(<<>>)

NextTracker ==
    \/ \E total \in 1 .. 2 : ApiCreateJob(total)
    \/ \E strategy \in ApiStrategies, progress \in 0 .. 2, status \in ApiStatuses :
          ApiUpdateJob(strategy, progress, status)

SpecTracker == InitTracker /\ [][NextTracker]_vars

----------------------------------------------------------------------------
(* SpecSlow: the job of the five strategies config.go registers, started by
   a RunAnalysis that listed them in registration order, and one subscriber
   that subscribes at any moment and never receives.  Analyze may fail; the
   goroutine of the job keeps running (every call it makes returns). *)

InitSlow ==
    /\ Fresh(AllStrategies)
    /\ ChunkIdle /\ RagOff /\ EngineIdle /\ ClockZero /\ RequestIdle
    /\ job = CreateJob(Len(AllStrategies))
    /\ strategies = AllStrategies
    /\ pc = "start"

JobStep ==
    \/ JobStart
    \/ AttemptOk(7)
    \/ AttemptErr
    \/ RetrySleep
    \/ SaveFailure(TRUE)
    \/ SaveResult(TRUE)
    \/ JobAdvance
    \/ JobComplete
    \/ Notify

NextSlow ==
    \/ JobStep
    \/ SseGetJob(1)
    \/ SseSubscribe(1)

SpecSlow == InitSlow /\ [][NextSlow]_vars /\ WF_vars(JobStep)

----------------------------------------------------------------------------
(* chunkCode (part_010, lines 135-164).  A string is the sequence of its
   characters; the model's alphabet is a letter, a space and a newline. *)

NL == "\n"
SP == " "
Chars == {"w", SP, NL}

IsSpace(c) == c \in {SP, NL}

(* strings.Split(s, "\n"): the text between consecutive newlines, so a
   string with n newlines gives n + 1 lines, and "" gives one empty line. *)
NewlinesUpTo(s, p) == Cardinality({q \in 1 .. p : s[q] = NL})

Split(s) ==
    LET n == NewlinesUpTo(s, Len(s))
        nl(j) == IF j = 0 THEN 0
                 ELSE IF j = n + 1 THEN Len(s) + 1
                 ELSE CHOOSE p \in 1 .. Len(s) :
                          s[p] = NL /\ NewlinesUpTo(s, p) = j
    IN [j \in 1 .. n + 1 |-> SubSeq(s, nl(j - 1) + 1, nl(j) - 1)]

(* len(strings.Fields(line)): the maximal runs of non-space characters. *)
WordCount(line) ==
    Cardinality({k \in 1 .. Len(line) :
                    /\ ~IsSpace(line[k])
                    /\ (k = 1 \/ IsSpace(line[k - 1]))})

(* strings.Join(lines, "\n"). *)
RECURSIVE Join(_)
Join(lines) ==
    IF lines = <<>> THEN <<>>
    ELSE IF Len(lines) = 1 THEN lines[1]
    ELSE lines[1] \o <<NL>> \o Join(Tail(lines))

RECURSIVE SumWords(_)
SumWords(lines) ==
    IF lines = <<>> THEN 0 ELSE WordCount(Head(lines)) + SumWords(Tail(lines))

(* Lines 146-150: current[len(current)-overlap:], overlap at most 3. *)
OverlapLines == 3

OverlapTailTwo(current) ==
    SubSeq(current, Len(current) - (IF Len(current) < 2 THEN Len(current) ELSE 2) + 1,
           Len(current))

OverlapTail(current) ==
    LET overlap == IF Len(current) < OverlapLines
                   THEN Len(current) ELSE OverlapLines
    IN SubSeq(current, Len(current) - overlap + 1, Len(current))

(* Line 156: current = append(current, line). *)
AppendLineReplacing(current, line) ==
    IF current = <<>> THEN <<line>>
    ELSE [current EXCEPT ![Len(current)] = line]

AppendLine(current, line) == Append(current, line)

(* Lines 151-154: currentLen counted again over the lines kept. *)
OverlapLenZero(kept) == 0
OverlapLen(kept) == SumWords(kept)

(* Lines 141-158: the loop over the lines, from line k on. *)
RECURSIVE ChunkLoop(_, _, _, _, _, _)
ChunkLoop(lines, k, maxTok, out, current, currentLen) ==
    IF k > Len(lines)
    THEN IF Len(current) > 0 THEN Append(out, Join(current)) ELSE out
    ELSE LET wordCount == WordCount(lines[k])
             flush == currentLen + wordCount > maxTok /\ Len(current) > 0
             kept == IF flush THEN OverlapTail(current) ELSE current
             keptLen == IF flush THEN OverlapLen(kept) ELSE currentLen
         IN ChunkLoop(lines, k + 1, maxTok,
                      IF flush THEN Append(out, Join(current)) ELSE out,
                      AppendLine(kept, lines[k]), keptLen + wordCount)

chunkCode(text, maxTok) == ChunkLoop(Split(text), 1, maxTok, <<>>, <<>>, 0)

(* SpecChunk: chunkCode called once, on every content of up to MaxContent
   characters and every limit up to MaxTokens. *)
Strings(n) == UNION {[1 .. m -> Chars] : m \in 0 .. n}

ChunkCall ==
    /\ cpc = "idle"
    /\ chunks' = chunkCode(content, maxTokens)
    /\ cpc' = "done"
    /\ UNCHANGED <<reqVars, content, maxTokens, ragVars, engVars, timeVars, registered,
                   job, strategies, pc, ret, orchVars, updates, subsVars,
                   chans, updVars, sseVars, delivered, atComplete>>

InitChunk ==
    /\ Fresh(<<>>)
    /\ job = NoJob /\ strategies = <<>> /\ pc = "idle"
    /\ RagOff /\ EngineIdle /\ ClockZero /\ RequestIdle
    /\ content \in Strings(MaxContent)
    /\ maxTokens \in 0 .. MaxTokens
    /\ chunks = <<>>
    /\ cpc = "idle"

NextChunk == ChunkCall

SpecChunk == InitChunk /\ [][NextChunk]_vars

----------------------------------------------------------------------------
(* RAG indexing (analysis_handler.go 96-179, part_010 97-132, vector.go
   38-67).  Files are numbered; a row of the embeddings table keeps the
   fields IndexChunks fills from its loop (line 114-122). *)

Words(n) == [k \in 1 .. 2 * n - 1 |-> IF k % 2 = 1 THEN "w" ELSE SP]

(* Contents a walked file can have: empty, one short line, and two lines
   that together exceed the 512 tokens of a chunk. *)
EmptyFile == <<>>
SmallFile == <<"w">>
BigFile == Words(ChunkTokens) \o <<NL>> \o Words(2)
Contents == {EmptyFile, SmallFile, BigFile}

Repo == "r1"
OtherRepo == "r2"
Snapshot == "s1"

Embedding(f, k, chunk, vec) ==
    [repo |-> Repo, snapshot |-> Snapshot, file |-> f, idx |-> k,
     content |-> chunk, vector |-> vec]

(* database/sql transaction: rows inserted through tx become rows of the
   table at Commit and vanish at Rollback. *)
InsertAutocommit(d, row) == [d EXCEPT !.table = Append(@, row)]

InsertInTx(d, row) == [d EXCEPT !.tx = Append(@, row)]

Commit(d) == [table |-> d.table \o d.tx, tx |-> <<>>]
Rollback(d) == [d EXCEPT !.tx = <<>>]

(* What an iteration of the loop ended with, how many rows its transaction
   held at that moment and how many vectors EmbedBatch had returned (one
   for each chunk, when the batch was built). *)
Logged(f, what) ==
    [ilog EXCEPT ![f] = [what |-> what, staged |-> Len(db.tx),
                         chunks |-> vectors]]

(* An unrecovered panic in any goroutine ends the process. *)
Alive == pc # "panic" /\ ipc # "panic"

(* runAnalysisJob, lines 96-115: before the strategy loop.  No goroutine
   is started when no service is configured, the repository row cannot be
   read or has no local path, or the snapshot row cannot be created. *)
RagSetup(repoOk, snapOk) ==
    /\ pc = "start" /\ i = 0 /\ ipc = "init"
    /\ ipc' = IF ragService /\ repoOk /\ snapOk THEN "walk" ELSE "off"
    /\ UNCHANGED <<reqVars, chunkVars, engVars, timeVars, ragService, files, todo, cur,
                   vectors, batch, db, ilog, indexErr, queries, registered,
                   job, strategies, pc, ret, orchVars, updates, subsVars,
                   chans, updVars, sseVars, delivered, atComplete>>

(* Lines 141-175: the walk has filled files; IndexChunks is called when it
   found any. *)
IndexWalk ==
    /\ Alive /\ ipc = "walk"
    /\ IF Len(files) > 0
       THEN ipc' = "loop" /\ todo' = DOMAIN files
       ELSE ipc' = "done" /\ todo' = todo
    /\ UNCHANGED <<reqVars, chunkVars, engVars, timeVars, ragService, files, cur,
                   vectors, batch, db, ilog, indexErr, queries, registered,
                   job, strategies, pc, ret, orchVars, updates, subsVars,
                   chans, updVars, sseVars, delivered, atComplete>>

(* IndexChunks, lines 100-104: the next file of the map, in the order the
   map's iteration happens to take; a file without chunks is skipped. *)
IndexNextFile(f) ==
    /\ Alive /\ ipc = "loop" /\ f \in todo
    /\ todo' = todo \ {f}
    /\ IF Len(chunkCode(files[f], ChunkTokens)) = 0
       THEN ipc' = "loop" /\ cur' = 0 /\ ilog' = Logged(f, "empty")
       ELSE ipc' = "embed" /\ cur' = f /\ ilog' = ilog
    /\ UNCHANGED <<reqVars, chunkVars, engVars, timeVars, ragService, files, vectors,
                   batch, db, indexErr, queries, registered, job, strategies,
                   pc, ret, orchVars, updates, subsVars, chans, updVars,
                   sseVars, delivered, atComplete>>

(* continue: the iteration is over and its locals are dead. *)
Continue ==
    /\ ipc' = "loop"
    /\ cur' = 0
    /\ vectors' = 0
    /\ batch' = <<>>

(* Lines 106-110: EmbedBatch returned an error. *)
AbortOnEmbedError(rest) == {}

OnEmbedError(rest) == rest

EmbedBatchErr ==
    /\ Alive /\ ipc = "embed"
    /\ Continue
    /\ todo' = OnEmbedError(todo)
    /\ ilog' = Logged(cur, "embedErr")
    /\ UNCHANGED <<reqVars, chunkVars, engVars, timeVars, ragService, files, db,
                   indexErr, queries, registered, job, strategies, pc, ret,
                   orchVars, updates, subsVars, chans, updVars, sseVars,
                   delivered, atComplete>>

(* Lines 106-123: EmbedBatch returned n vectors and no error (the Ollama
   adapter hands on whatever the server's JSON held).  vectors[i] with
   i >= n is an index out of range: the goroutine panics. *)
BuildBatch(f, cs) ==
    [k \in 1 .. Len(cs) |-> Embedding(f, k - 1, cs[k], k - 1)]

EmbedBatchOk ==
    /\ Alive /\ ipc = "embed"
    /\ LET cs == chunkCode(files[cur], ChunkTokens) IN
          /\ vectors' = Len(cs)
          /\ batch' = BuildBatch(cur, cs)
    /\ ipc' = "store"
    /\ UNCHANGED <<reqVars, chunkVars, engVars, timeVars, ragService, files, todo, cur,
                   db, ilog, indexErr, queries, registered, job, strategies,
                   pc, ret, orchVars, updates, subsVars, chans, updVars,
                   sseVars, delivered, atComplete>>

EmbedBatchShort ==
    /\ Alive /\ ipc = "embed"
    /\ \E n \in 0 .. Len(chunkCode(files[cur], ChunkTokens)) - 1 :
          vectors' = n
    /\ ipc' = "panic"
    /\ ilog' = Logged(cur, "short")
    /\ UNCHANGED <<reqVars, chunkVars, engVars, timeVars, ragService, files, todo, cur,
                   batch, db, indexErr, queries, registered, job, strategies,
                   pc, ret, orchVars, updates, subsVars, chans, updVars,
                   sseVars, delivered, atComplete>>

(* StoreBatchEmbeddings, lines 39-55, and IndexChunks 125-128: an empty
   batch is done at once; BeginTx or Prepare can fail. *)
StoreBegin(ok) ==
    /\ Alive /\ ipc = "store"
    /\ IF batch = <<>> THEN Continue /\ ilog' = Logged(cur, "stored")
       ELSE IF ok THEN ipc' = "insert" /\ ilog' = ilog
                       /\ UNCHANGED <<cur, vectors, batch>>
       ELSE Continue /\ ilog' = Logged(cur, "beginErr")
    /\ UNCHANGED <<reqVars, chunkVars, engVars, timeVars, ragService, files, todo, db,
                   indexErr, queries, registered, job, strategies, pc, ret,
                   orchVars, updates, subsVars, chans, updVars, sseVars,
                   delivered, atComplete>>

(* Lines 57-64 and the deferred Rollback of line 47: one insert. *)
StoreInsert(ok) ==
    /\ Alive /\ ipc = "insert" /\ batch # <<>>
    /\ IF ok
       THEN /\ db' = InsertInTx(db, Head(batch))
            /\ batch' = Tail(batch)
            /\ ipc' = "insert" /\ ilog' = ilog
            /\ UNCHANGED <<cur, vectors>>
       ELSE /\ db' = Rollback(db)
            /\ Continue /\ ilog' = Logged(cur, "insertErr")
    /\ UNCHANGED <<reqVars, chunkVars, engVars, timeVars, ragService, files, todo,
                   indexErr, queries, registered, job, strategies, pc, ret,
                   orchVars, updates, subsVars, chans, updVars, sseVars,
                   delivered, atComplete>>

(* Line 66: Commit, which can fail; the transaction is over either way. *)
StoreCommit(ok) ==
    /\ Alive /\ ipc = "insert" /\ batch = <<>>
    /\ db' = IF ok THEN Commit(db) ELSE Rollback(db)
    /\ Continue
    /\ ilog' = Logged(cur, IF ok THEN "stored" ELSE "commitErr")
    /\ UNCHANGED <<reqVars, chunkVars, engVars, timeVars, ragService, files, todo,
                   indexErr, queries, registered, job, strategies, pc, ret,
                   orchVars, updates, subsVars, chans, updVars, sseVars,
                   delivered, atComplete>>

(* Line 131: the loop is over, IndexChunks returns nil. *)
IndexReturn ==
    /\ Alive /\ ipc = "loop" /\ todo = {}
    /\ ipc' = "done"
    /\ indexErr' = ""
    /\ UNCHANGED <<reqVars, chunkVars, engVars, timeVars, ragService, files, todo, cur,
                   vectors, batch, db, ilog, queries, registered, job,
                   strategies, pc, ret, orchVars, updates, subsVars, chans,
                   updVars, sseVars, delivered, atComplete>>

IndexChunks ==
    \/ \E f \in DOMAIN files : IndexNextFile(f)
    \/ EmbedBatchErr
    \/ EmbedBatchOk
    \/ EmbedBatchShort
    \/ \E ok \in BOOLEAN : StoreBegin(ok)
    \/ \E ok \in BOOLEAN : StoreInsert(ok)
    \/ \E ok \in BOOLEAN : StoreCommit(ok)
    \/ IndexReturn

(* RAG queries (part_010 26-94, vector.go 70-97). *)

NoRelevantCode == "No relevant code found for this query."

RowsOfRepo(table, repo) == SelectSeq(table, LAMBDA r : r.repo = repo)

(* SearchSimilar: WHERE repo_id = $2 ... LIMIT $3, committed rows only. *)
SearchSimilar(table, repo, limit) ==
    LET found == RowsOfRepo(table, repo)
    IN SubSeq(found, 1, IF Len(found) < limit THEN Len(found) ELSE limit)

Sources(found) == [k \in 1 .. Len(found) |-> <<found[k].file, found[k].idx>>]

Faults == {"none", "embed", "search", "chat"}

QueryNoEarlyReturn(found) == FALSE

QueryEarlyReturn(found) == Len(found) = 0

(* Query: what it returns and whether it called Chat, given which of its
   three calls fails. *)
QueryResult(repo, fault) ==
    LET found == SearchSimilar(db.table, repo, SearchLimit)
        base == [op |-> "Query", repo |-> repo,
                 stored |-> Len(RowsOfRepo(db.table, repo)), fault |-> fault,
                 answer |-> "", sources |-> <<>>, err |-> "", chat |-> FALSE]
    IN IF fault = "embed" THEN [base EXCEPT !.err = "embed query"]
       ELSE IF fault = "search" THEN [base EXCEPT !.err = "search similar"]
       ELSE IF QueryEarlyReturn(found)
            THEN [base EXCEPT !.answer = NoRelevantCode]
       ELSE IF fault = "chat"
            THEN [base EXCEPT !.err = "chat", !.chat = TRUE]
       ELSE [base EXCEPT !.answer = "response", !.sources = Sources(found),
                         !.chat = TRUE]

(* QueryStream: the same, with ChatStream called whatever was found. *)
QueryStreamResult(repo, fault) ==
    LET found == SearchSimilar(db.table, repo, SearchLimit)
        base == [op |-> "QueryStream", repo |-> repo,
                 stored |-> Len(RowsOfRepo(db.table, repo)), fault |-> fault,
                 answer |-> "", sources |-> <<>>, err |-> "", chat |-> FALSE]
    IN IF fault = "embed" THEN [base EXCEPT !.err = "embed query"]
       ELSE IF fault = "search" THEN [base EXCEPT !.err = "search similar"]
       ELSE IF fault = "chat"
            THEN [base EXCEPT !.err = "chat stream", !.chat = TRUE]
       ELSE [base EXCEPT !.answer = "stream", !.sources = Sources(found),
                         !.chat = TRUE]

Query(repo, fault) ==
    /\ Alive /\ queries = <<>>
    /\ queries' = <<QueryResult(repo, fault)>>
    /\ UNCHANGED <<reqVars, chunkVars, engVars, timeVars, ragService, files, ipc, todo,
                   cur, vectors, batch, db, ilog, indexErr, registered, job,
                   strategies, pc, ret, orchVars, updates, subsVars, chans,
                   updVars, sseVars, delivered, atComplete>>

QueryStream(repo, fault) ==
    /\ Alive /\ queries = <<>>
    /\ queries' = <<QueryStreamResult(repo, fault)>>
    /\ UNCHANGED <<reqVars, chunkVars, engVars, timeVars, ragService, files, ipc, todo,
                   cur, vectors, batch, db, ilog, indexErr, registered, job,
                   strategies, pc, ret, orchVars, updates, subsVars, chans,
                   updVars, sseVars, delivered, atComplete>>

(* SpecRag: one indexing run over up to MaxFiles files, with every outcome
   of the provider and of the store.  The table already holds a row of
   another repository, indexed earlier. *)
EarlierRow ==
    [repo |-> OtherRepo, snapshot |-> "s0", file |-> 0, idx |-> 0,
     content |-> SmallFile, vector |-> 0]

InitRagWith(regs) ==
    /\ Fresh(regs)
    /\ job = NoJob /\ strategies = <<>> /\ pc = "idle"
    /\ ChunkIdle /\ EngineIdle /\ ClockZero /\ RequestIdle
    /\ ragService \in BOOLEAN
    /\ \E n \in 0 .. MaxFiles : files \in [1 .. n -> Contents]
    /\ ipc = "init"
    /\ todo = {}
    /\ cur = 0
    /\ vectors = 0
    /\ batch = <<>>
    /\ db = [table |-> <<EarlierRow>>, tx |-> <<>>]
    /\ ilog = [f \in DOMAIN files |-> [what |-> "pending", staged |-> 0, chunks |-> 0]]
    /\ indexErr = "none"
    /\ queries = <<>>

InitRag == InitRagWith(<<>>)

NextRag ==
    \/ RunAnalysis
    \/ \E repoOk, snapOk \in BOOLEAN : RagSetup(repoOk, snapOk)
    \/ IndexWalk
    \/ IndexChunks

SpecRag == InitRag /\ [][NextRag]_vars

(* SpecQuery: one Query or QueryStream call, on either repository and with
   every outcome of its provider and store calls, made at any moment of an
   indexing run whose own calls succeed. *)
NextQuery ==
    \/ RunAnalysis
    \/ RagSetup(TRUE, TRUE)
    \/ IndexWalk
    \/ \E f \in DOMAIN files : IndexNextFile(f)
    \/ EmbedBatchOk
    \/ StoreBegin(TRUE)
    \/ StoreInsert(TRUE)
    \/ StoreCommit(TRUE)
    \/ IndexReturn
    \/ \E repo \in {Repo, OtherRepo}, fault \in Faults : Query(repo, fault)
    \/ \E repo \in {Repo, OtherRepo}, fault \in Faults : QueryStream(repo, fault)

SpecQuery == InitRag /\ [][NextQuery]_vars

----------------------------------------------------------------------------
(* AnalysisEngine.RunAll (part_009, lines 72-82), reached through
   AnalysisService.RunAll. *)

(* Lines 73-74: the range over the strategies map starts, in one of the
   orders a map iteration can take. *)
RunAllStart ==
    /\ Alive /\ raPc = "idle"
    /\ \E order \in AvailableStrategies(NewAnalysisEngine(registered)) :
          raOrder' = order
    /\ raIdx' = 1
    /\ raResults' = <<>>
    /\ raPc' = "loop"
    /\ UNCHANGED <<reqVars, chunkVars, ragVars, timeVars, raErr, raRan, registered, job,
                   strategies, pc, ret, orchVars, updates, subsVars, chans,
                   updVars, sseVars, delivered, atComplete>>

(* Lines 75-79: Analyze returned a result. *)
RunAllAnalyzeOk(score) ==
    /\ Alive /\ raPc = "loop" /\ raIdx <= Len(raOrder)
    /\ raRan' = Append(raRan, raOrder[raIdx])
    /\ raResults' = Append(raResults, ResultRow(raOrder[raIdx], score))
    /\ raIdx' = raIdx + 1
    /\ UNCHANGED <<reqVars, chunkVars, ragVars, timeVars, raPc, raOrder, raErr,
                   registered, job, strategies, pc, ret, orchVars, updates,
                   subsVars, chans, updVars, sseVars, delivered, atComplete>>

(* Lines 75-78: Analyze returned an error: return nil, err. *)
RunAllAnalyzeErr ==
    /\ Alive /\ raPc = "loop" /\ raIdx <= Len(raOrder)
    /\ raRan' = Append(raRan, raOrder[raIdx])
    /\ raResults' = <<>>
    /\ raErr' = "provider error"
    /\ raPc' = "returned"
    /\ UNCHANGED <<reqVars, chunkVars, ragVars, timeVars, raOrder, raIdx, registered,
                   job, strategies, pc, ret, orchVars, updates, subsVars,
                   chans, updVars, sseVars, delivered, atComplete>>

(* Line 81: the range is over: return results, nil. *)
RunAllReturn ==
    /\ Alive /\ raPc = "loop" /\ raIdx > Len(raOrder)
    /\ raPc' = "returned"
    /\ UNCHANGED <<reqVars, chunkVars, ragVars, timeVars, raOrder, raIdx, raResults,
                   raErr, raRan, registered, job, strategies, pc, ret,
                   orchVars, updates, subsVars, chans, updVars, sseVars,
                   delivered, atComplete>>

RunAll ==
    \/ RunAllStart
    \/ \E score \in Scores : RunAllAnalyzeOk(score)
    \/ RunAllAnalyzeErr
    \/ RunAllReturn

(* SpecEngine: the job of Spec and, beside it, one RunAll call on the same
   engine. *)
NextEngine ==
    \/ Next
    \/ RunAll

SpecEngine == Init /\ [][NextEngine]_vars

----------------------------------------------------------------------------
(* SpecJobRag: runAnalysisJob as a whole: the indexing set-up, then the
   strategy loop of one strategy with every outcome of its attempts and
   saves, and beside it the indexing goroutine with every outcome of the
   provider and of the store.  The loop starts after the set-up (lines
   96-179 precede line 181) and no goroutine outlives the process. *)
InitJobRag == InitRagWith(SubSeq(AllStrategies, 1, 1))

NextJobRag ==
    \/ RunAnalysis
    \/ \E repoOk, snapOk \in BOOLEAN : RagSetup(repoOk, snapOk)
    \/ Alive /\ ipc # "init" /\ Orchestrator
    \/ IndexWalk
    \/ IndexChunks

SpecJobRag == InitJobRag /\ [][NextJobRag]_vars

----------------------------------------------------------------------------
(* StreamSSE's timeout.  Line 182 makes the timer once, before the loop:
   its channel delivers StreamTimeout minutes after that moment, which
   SseSubscribe recorded as deadline.  SpecStream and SpecSlow let any
   amount of time pass between two steps; SpecTimed counts the minutes. *)
TimerFired(h) == clock >= deadline[h]

Tick ==
    /\ clock < MaxClock
    /\ clock' = clock + 1
    /\ UNCHANGED <<reqVars, sideVars, deadline, lastEvent, registered, job, strategies,
                   pc, ret, orchVars, updates, subsVars, chans, updVars,
                   sseVars, delivered, atComplete>>

(* SpecTimed: one job of one strategy, one stream handler and the clock. *)
NextTimed ==
    \/ RunAnalysis
    \/ JobStart
    \/ AttemptOk(7)
    \/ SaveResult(TRUE)
    \/ JobAdvance
    \/ JobComplete
    \/ Notify
    \/ SseGetJob(1)
    \/ SseSubscribe(1)
    \/ SseRecv(1)
    \/ TimerFired(1) /\ SseTimeout(1)
    \/ SseUnsubscribe(1)
    \/ Tick

SpecTimed == InitStream /\ [][NextTimed]_vars

----------------------------------------------------------------------------
(* Properties. *)

(* C1: over the UpdateJob calls of a job run by runAnalysisJob the stored
   progress never decreases and never exceeds total, and the status leaves
   "running" for a terminal status exactly once: no update follows the
   terminal one, and the finished loop has made it. *)
C1_ProgressMonotoneBounded ==
    /\ \A k \in 1 .. Len(updates) :
          /\ updates[k].stored.Progress <= updates[k].stored.Total
          /\ k > 1 => updates[k - 1].stored.Progress <= updates[k].stored.Progress
          /\ updates[k].stored.Status \in Terminal => k = Len(updates)
    /\ job # NoJob => job.Progress <= job.Total
    /\ pc = "done" => /\ updates # <<>>
                      /\ updates[Len(updates)].stored.Status \in Terminal
                      /\ job.Status \in Terminal

C1_Witness ==
    /\ pc = "done"
    /\ job.Total >= 2
    /\ job.Progress = job.Total
    /\ Len(updates) >= 5

(* C2: terminal states are absorbing for UpdateJob: once the stored status
   is complete or error, no step (so no later UpdateJob call) changes the
   stored job, and the status never returns to running. *)
C2_TerminalAbsorbing ==
    [][(job # NoJob /\ job.Status \in Terminal) => job' = job]_vars

(* C3: no UpdateJob sends on a channel whose Unsubscribe has returned (such
   a send is a send on a closed channel), and no channel is closed twice. *)
C3_NoSendAfterUnsubscribe ==
    /\ pc # "panic"
    /\ \A h \in Handlers : closes[h] <= 1

(* C4: with a subscriber that never receives, every UpdateJob call returns
   (the notification loop is left again) and the job reaches "complete". *)
C4_SlowSubscriberJobCompletes ==
    /\ (pc = "notify") ~> (pc # "notify")
    /\ <>(job.Status = "complete" /\ pc = "done")

(* The job is complete although the last update found the subscriber's
   buffer full and was dropped for it. *)
C4_Witness ==
    /\ pc = "done"
    /\ job.Status = "complete"
    /\ hpc[1] = "loop"
    /\ Len(chans[1].buf) = ChanCap
    /\ chans[1].buf[ChanCap].seq < Len(updates)

(* What the histories say about strategy index k (1-based). *)
Evs(k) == [j \in 1 .. Len(tries[k]) |-> tries[k][j].ev]
Exhausted(k) ==
    /\ k <= Len(tries)
    /\ Cardinality({j \in 1 .. Len(tries[k]) : tries[k][j].ev = "err"}) = MaxRetries + 1
FailedTwiceThenOk(k) ==
    /\ k <= Len(tries)
    /\ Evs(k) = <<"err", "sleep", "err", "sleep", "ok">>
Advanced(k) == i >= k
RowsOf(name) == {r \in 1 .. Len(rows) : rows[r].strategy = name}
FailureRowsOf(name) ==
    {r \in RowsOf(name) : rows[r].kind = "failure" /\ rows[r].score = 0}
SavesOf(name) == {c \in 1 .. Len(saves) : saves[c].row.strategy = name}
StartUpdates(k) ==
    {u \in 1 .. Len(updates) : /\ updates[u].status = "running"
                               /\ updates[u].strategy = strategies[k]
                               /\ updates[u].progress = k - 1}

(* C5: whatever the Analyze attempts return, the job never has status
   error and ends complete with progress = total, with exactly one failure
   report of score 0 stored for each strategy that exhausted its attempts. *)
C5_EveryOutcomeCompletes ==
    /\ job.Status # "error"
    /\ pc = "done" =>
          /\ job.Status = "complete"
          /\ job.Progress = job.Total
          /\ \A k \in 1 .. Len(strategies) :
                Exhausted(k) => Cardinality(FailureRowsOf(strategies[k])) = 1

(* C6, as claimed: a strategy that failed twice and then succeeded has its
   successful result stored, no failure report, and three UpdateJob calls
   with status "running" for its index before the advancing update. *)
C6_ThreeRunningUpdates ==
    \A k \in 1 .. Len(strategies) :
        (FailedTwiceThenOk(k) /\ Advanced(k)) =>
            /\ FailureRowsOf(strategies[k]) = {}
            /\ \E r \in RowsOf(strategies[k]) :
                  rows[r].kind = "result" /\ rows[r].score = tries[k][5].score
            /\ Cardinality(StartUpdates(k)) = 3

(* C6, amended: for such a strategy the one save issued carries the
   successful result (it is the strategy's only row when the store accepts
   it), no failure report is saved, and UpdateJob is called with status
   "running" for its index exactly once before the advancing update: the
   retries make no UpdateJob call. *)
C6_OneRunningUpdate ==
    \A k \in 1 .. Len(strategies) :
        (FailedTwiceThenOk(k) /\ Advanced(k)) =>
            /\ FailureRowsOf(strategies[k]) = {}
            /\ \E c \in 1 .. Len(saves) :
                  /\ SavesOf(strategies[k]) = {c}
                  /\ saves[c].row.kind = "result"
                  /\ saves[c].row.score = tries[k][5].score
                  /\ \A r \in RowsOf(strategies[k]) : rows[r] = saves[c].row
                  /\ Cardinality(RowsOf(strategies[k])) = IF saves[c].ok THEN 1 ELSE 0
            /\ Cardinality(StartUpdates(k)) = 1

C6_Witness ==
    \E k \in 1 .. Len(strategies) :
        /\ FailedTwiceThenOk(k)
        /\ Advanced(k)
        /\ tries[k][5].score # 0
        /\ RowsOf(strategies[k]) # {}

(* C7: a channel that was in the subscriber list, with room in its buffer,
   when the "complete" update was applied, and that is still subscribed when
   that UpdateJob has returned, has been sent the snapshot of that update,
   with status complete and no current strategy. *)
C7_CompleteSnapshotDelivered ==
    pc = "done" =>
        \A h \in atComplete :
            (hpc[h] = "loop" /\ h \in Range(Subs)) =>
                /\ \E d \in 1 .. Len(delivered[h]) : delivered[h][d] = Len(updates)
                /\ uSnap.seq = Len(updates)
                /\ uSnap.job.Status = "complete"
                /\ uSnap.job.Current = ""

(* C8: when the job is complete the store holds, for every strategy of the
   job, a row that is its real result or a failure report with the error
   text and score 0. *)
C8_RowForEveryStrategy ==
    (job # NoJob /\ job.Status = "complete") =>
        \A k \in 1 .. Len(strategies) :
            \E r \in RowsOf(strategies[k]) :
                \/ rows[r].kind = "result"
                \/ rows[r].kind = "failure" /\ rows[r].error # "" /\ rows[r].score = 0

(* C9: the job runs the strategies in registration order: the slice it
   iterates is the registration sequence, so the update that starts index
   k carries the k-th registered strategy. *)
C9_RegistrationOrder ==
    /\ job # NoJob => strategies = registered
    /\ \A u \in 1 .. Len(updates) :
          (updates[u].status = "running" /\ updates[u].progress < Len(registered)
           /\ (u = 1 \/ updates[u - 1].progress = updates[u].progress))
              => updates[u].strategy = registered[updates[u].progress + 1]

(* C10: what a subscriber has received last and what waits in its buffer
   are in production order: a snapshot of an earlier UpdateJob is never
   behind one of a later UpdateJob. *)
BufSeqs(h) == [k \in 1 .. Len(chans[h].buf) |-> chans[h].buf[k].seq]
StrictlyIncreasingDelivery ==
    \A h \in Handlers :
        LET q == <<lastRecv[h]>> \o BufSeqs(h) IN
        \A k \in 1 .. Len(q) - 1 : q[k] < q[k + 1]

(* The lines of chunk j, and the number of lines it shares with chunk j-1:
   min(3, line count of chunk j-1). *)
ChunkLines(j) == Split(chunks[j])

OverlapOf(j) ==
    IF j = 1 THEN 0
    ELSE IF Len(ChunkLines(j - 1)) < 3 THEN Len(ChunkLines(j - 1)) ELSE 3

RECURSIVE Reassembled(_)
Reassembled(j) ==
    IF j = 0 THEN <<>>
    ELSE Reassembled(j - 1)
         \o SubSeq(ChunkLines(j), OverlapOf(j) + 1, Len(ChunkLines(j)))

(* C15: for every content and limit, each chunk produced by chunkCode
   except the first begins with the last min(3, line count of the previous
   chunk) lines of the previous chunk, in the same order. *)
C15_ChunksOverlap ==
    cpc = "done" =>
        \A j \in 2 .. Len(chunks) :
            LET prev == ChunkLines(j - 1)
                ov == OverlapOf(j)
            IN /\ Len(ChunkLines(j)) >= ov
               /\ SubSeq(ChunkLines(j), 1, ov)
                      = SubSeq(prev, Len(prev) - ov + 1, Len(prev))

(* A call that produced a chunk after one of at least three lines (overlap
   3) and a chunk after one of fewer (overlap below 3). *)
C15_Witness ==
    /\ cpc = "done"
    /\ \E j \in 2 .. Len(chunks) : OverlapOf(j) = 3
    /\ \E j \in 2 .. Len(chunks) :
          OverlapOf(j) < 3 /\ ChunkLines(j)[1] # <<>>

(* C16: for every content and limit, removing from each chunk after the
   first its leading overlap lines and concatenating the chunks in order
   yields exactly the input's line sequence. *)
C16_ChunksReassemble ==
    cpc = "done" => Reassembled(Len(chunks)) = Split(content)

(* A call that produced three chunks or more from lines that differ. *)
C16_Witness ==
    /\ cpc = "done"
    /\ Len(chunks) >= 3
    /\ \E a, b \in 1 .. Len(Split(content)) :
          Split(content)[a] # Split(content)[b]

(* C17: chunkCode emits no chunk for empty content and at least one chunk
   for every non-empty content. *)
C17_NoChunkForEmptyContent ==
    cpc = "done" =>
        /\ content = <<>> => chunks = <<>>
        /\ content # <<>> => Len(chunks) >= 1

(* The committed rows of one file, and the chunks IndexChunks cut it into. *)
RowsOfFile(f) == SelectSeq(db.table, LAMBDA r : r.file = f)
ChunksOfFile(f) == chunkCode(files[f], ChunkTokens)
StoreFailed(f) == ilog[f].what \in {"beginErr", "insertErr", "commitErr"}

FullyStored(f) ==
    /\ Len(RowsOfFile(f)) = Len(ChunksOfFile(f))
    /\ \A k \in 1 .. Len(RowsOfFile(f)) :
          /\ RowsOfFile(f)[k].idx = k - 1
          /\ RowsOfFile(f)[k].content = ChunksOfFile(f)[k]

(* C11: IndexChunks is best-effort per file: when the EmbedBatch call of
   one file fails, every other file of the map is still visited, and each
   one whose own embedding and storing succeed is in the store with all of
   its chunks; IndexChunks returns nil. *)
C11_IndexChunksBestEffort ==
    ipc = "done" /\ Len(files) > 0 =>
        /\ indexErr = ""
        /\ \A f \in DOMAIN files :
              /\ ilog[f].what # "pending"
              /\ ilog[f].what = "stored" => FullyStored(f)

(* IndexChunks has returned; the EmbedBatch call of one file failed and
   another file, of two chunks, is stored. *)
C11_Witness ==
    /\ ipc = "done"
    /\ \E f, g \in DOMAIN files :
          /\ ilog[f].what = "embedErr"
          /\ ilog[g].what = "stored"
          /\ Len(RowsOfFile(g)) = 2

(* C12: storing a file's chunks is all-or-nothing: at every moment the
   table holds either no row of a file or all of them; after a failed
   insert or commit it holds none, and the rows of a file stored earlier
   are all still there. *)
C12_StoreAllOrNothing ==
    \A f \in DOMAIN files :
        /\ ilog[f].what # "stored" => RowsOfFile(f) = <<>>
        /\ ilog[f].what = "stored" =>
              /\ ilog[f].chunks >= 1
              /\ Len(RowsOfFile(f)) = ilog[f].chunks
              /\ \A k \in 1 .. Len(RowsOfFile(f)) : RowsOfFile(f)[k].idx = k - 1

(* A file was stored, and then the second insert of another file's batch
   failed. *)
C12_Witness ==
    \E f, g \in DOMAIN files :
        /\ ilog[f].what = "stored"
        /\ ilog[g].what = "insertErr"
        /\ ilog[g].staged = 1

(* C13: Query on a repository that has no stored chunks, when the question
   was embedded and the search ran, returns the fixed "no relevant code
   found" answer with an empty source list and no error, and does not call
   Chat. *)
C13_QueryNoChunks ==
    \A k \in 1 .. Len(queries) :
        LET q == queries[k] IN
        (q.op = "Query" /\ q.stored = 0 /\ q.fault \notin {"embed", "search"}) =>
            /\ q.answer = "No relevant code found for this query."
            /\ q.sources = <<>>
            /\ q.err = ""
            /\ ~q.chat

(* Query was called on the repository whose indexing is under way, before
   any of its rows was committed, with a Chat capability that would fail. *)
C13_Witness ==
    \E k \in 1 .. Len(queries) :
        /\ queries[k].op = "Query"
        /\ queries[k].repo = Repo
        /\ queries[k].stored = 0
        /\ queries[k].fault = "chat"
        /\ ipc = "insert"

(* C14: QueryStream performs the same steps 1-3 as Query: an embedding
   error fails the call, at most the top 10 chunks of the repository are
   retrieved, and when zero chunks are found it yields the fixed "no
   relevant code found" answer with an empty source list without calling
   the chat provider. *)
C14_QueryStreamSameSteps ==
    \A k \in 1 .. Len(queries) :
        LET q == queries[k] IN
        q.op = "QueryStream" =>
            /\ q.fault = "embed" => q.err # "" /\ ~q.chat
            /\ Len(q.sources) <= 10
            /\ (q.stored = 0 /\ q.fault \notin {"embed", "search"}) =>
                  /\ q.answer = "No relevant code found for this query."
                  /\ q.sources = <<>>
                  /\ ~q.chat

(* Strategy k of the job had Analyze called. *)
Attempted(k) ==
    /\ k <= Len(tries)
    /\ \E j \in 1 .. Len(tries[k]) : tries[k][j].ev \in {"ok", "err"}

(* C18: failure of one strategy never prevents the remaining strategies
   from running: the finished orchestrator loop has attempted every
   strategy of the job, and a RunAll call that returned has called Analyze
   of every registered strategy. *)
C18_FailureIsolated ==
    /\ pc = "done" => \A k \in 1 .. Len(strategies) : Attempted(k)
    /\ raPc = "returned" => Range(raRan) = Range(registered)

(* The UpdateJob calls made so far, and the calls runAnalysisJob makes for
   a list of strategies when nothing but the strategies decides them. *)
UpdateCalls ==
    [u \in 1 .. Len(updates) |->
        <<updates[u].strategy, updates[u].progress, updates[u].status>>]

ExpectedCalls(strats) ==
    [u \in 1 .. 2 * Len(strats) + 1 |->
        IF u = 2 * Len(strats) + 1 THEN <<"", Len(strats), "complete">>
        ELSE <<strats[(u + 1) \div 2], u \div 2, "running">>]

(* The job's goroutine makes no further step: its loop is over or the
   process is gone. *)
JobAtRest == pc = "done" \/ ~Alive

(* C19: the outcome of RAG indexing never reaches the job: however the
   indexing went (not configured, no snapshot, failing on every file,
   succeeding, or anything else), the job at rest has made the UpdateJob
   calls its strategies alone determine and has issued one save for each
   strategy. *)
C19_IndexingNeverReachesJob ==
    (job # NoJob /\ JobAtRest) =>
        /\ UpdateCalls = ExpectedCalls(strategies)
        /\ \A k \in 1 .. Len(strategies) :
              Cardinality(SavesOf(strategies[k])) = 1

(* C20: a job stream is ended by the timeout only after 5 minutes in which
   no event was delivered and the job did not finish: the step by which a
   handler leaves its loop on the timer is taken only when its last event
   (or, without one, its subscription) is 5 minutes old. *)
C20_TimeoutOnlyWhenIdle ==
    [][\A h \in Handlers :
          (hpc[h] = "loop" /\ hpc'[h] = "done") => clock - lastEvent[h] >= 5]_vars

(* The repository of the request is missing, not cloned or not ready. *)
CannotBuild ==
    \/ ~repoRow.found
    \/ repoRow.LocalPath = ""
    \/ repoRow.Status # "ready"

(* C21: RunAnalysis creates a job only when the request can be built.  If
   the repository is missing, not cloned or not ready, every response is an
   error, the tracker never holds a job and the background task is never
   started; otherwise the response that carries the job id is sent with the
   job stored as running, at progress 0, its total the number of registered
   strategies. *)
C21_JobOnlyForBuildableRequest ==
    /\ [](CannotBuild => /\ job = NoJob
                         /\ pc = "idle"
                         /\ resp.code \in {0, 400, 401})
    /\ [](resp.code \in {400, 401} => job = NoJob /\ pc = "idle")
    /\ [][resp'.code = 202 /\ resp.code # 202 =>
             /\ job = NoJob
             /\ job' # NoJob
             /\ job'.Status = "running"
             /\ job'.Progress = 0
             /\ job'.Total = Len(registered)]_vars

(* A request for a cloned repository that is not ready was answered. *)
C21_Witness ==
    /\ repoRow.found /\ repoRow.LocalPath # "" /\ repoRow.Status = "cloning"
    /\ resp.code = 400
    /\ resp.error = "repo not cloned or not ready"
    /\ job = NoJob

(* C22, as claimed: the progress values carried by the successive UpdateJob
   calls of one job are strictly increasing: no two consecutive calls carry
   the same value. *)
C22_ProgressStrictlyIncreasing ==
    \A k \in 2 .. Len(updates) : updates[k - 1].progress < updates[k].progress

(* C22, amended: the values never decrease: the first call carries 0 and
   each later call carries the value of the call before it or that value
   plus one; the call that starts a strategy repeats the value of the call
   before it, and so does the completing call. *)
C22_ProgressRepeatsOrAdvancesByOne ==
    \A k \in 1 .. Len(updates) :
        /\ k = 1 => updates[k].progress = 0
        /\ k > 1 => \/ updates[k].progress = updates[k - 1].progress
                    \/ updates[k].progress = updates[k - 1].progress + 1
        /\ (k > 1 /\ k % 2 = 1) => updates[k].progress = updates[k - 1].progress

C22_Witness ==
    /\ pc = "done"
    /\ Len(updates) = 5
    /\ updates[2].progress = 1
    /\ updates[3].progress = 1
    /\ updates[5].progress = updates[4].progress

(* C23: current strategy is cleared exactly when the status becomes
   complete or error: every UpdateJob call that sets a terminal status
   leaves current strategy empty, whatever strategy name it carries, and
   current strategy is not empty after a call that keeps the job running. *)
C23_CurrentClearedExactlyAtTerminal ==
    \A k \in 1 .. Len(updates) :
        updates[k].stored # NoJob =>
            /\ updates[k].status \in {"complete", "error"} =>
                  updates[k].stored.Current = ""
            /\ updates[k].status = "running" => updates[k].stored.Current # ""

(* Strategy k has finished: its retry loop ended with a result or with its
   attempts exhausted. *)
Finished(k) ==
    /\ k <= Len(tries)
    /\ \/ Exhausted(k)
       \/ \E j \in 1 .. Len(tries[k]) : tries[k][j].ev = "ok"

(* C24: at every point of a job's run the completed-strategies list holds
   the strategies whose execution has finished, each once and in execution
   order: it is a prefix of the job's strategies, every strategy in it has
   finished, every strategy the progress counts is in it, and it is the
   whole list when the loop is over; a strategy only started is not in it. *)
C24_ResultsAreTheFinishedStrategies ==
    job # NoJob =>
        /\ Len(job.Results) <= Len(strategies)
        /\ job.Results = SubSeq(strategies, 1, Len(job.Results))
        /\ \A k \in 1 .. Len(job.Results) : Finished(k)
        /\ job.Progress <= Len(job.Results)
        /\ pc = "done" => job.Results = strategies

(* C25: each UpdateJob call delivers its snapshot at most once to each
   subscriber channel, and only to channels currently subscribed: no
   channel holds or has been sent the same snapshot twice, and the
   notification loop never sends on a channel that has been unsubscribed
   (and closed). *)
C25_SnapshotAtMostOncePerChannel ==
    /\ \A h \in Handlers :
          \A j, k \in 1 .. Len(delivered[h]) :
              j # k => delivered[h][j] # delivered[h][k]
    /\ pc # "panic"

(* C26: for every strategy the Analyze call is attempted at least once and
   at most 3 times, no attempt follows a successful one, and a wait
   separates every two consecutive attempts. *)
C26_AttemptsBoundedAndSeparated ==
    \A k \in 1 .. Len(tries) :
        LET ev == Evs(k)
            tried == {j \in 1 .. Len(ev) : ev[j] \in {"ok", "err"}}
        IN  /\ Cardinality(tried) <= 3
            /\ (i >= k \/ pc \in {"save", "savefail", "advance"}) =>
                  Cardinality(tried) >= 1
            /\ \A j \in 1 .. Len(ev) : ev[j] = "ok" => j = Len(ev)
            /\ \A j \in 1 .. Len(ev) - 1 :
                  /\ ev[j] \in {"ok", "err"} => ev[j + 1] = "sleep"
                  /\ ev[j] = "sleep" => ev[j + 1] \in {"ok", "err"}
            /\ Len(ev) >= 1 => ev[1] \in {"ok", "err"}

(* A strategy was attempted three times, with a wait before the second and
   the third attempt, and the loop went on to the next strategy. *)
C26_Witness ==
    \E k \in 1 .. Len(tries) :
        /\ i >= k
        /\ Evs(k) = <<"err", "sleep", "err", "sleep", "err">>

(* C27: for each file whose EmbedBatch call returns without error,
   IndexChunks stores one row per chunk, with indexes 0..n-1 in chunk order
   and each chunk paired with the vector at its position; and whatever
   EmbedBatch answers, a response with fewer vectors than chunks included,
   the remaining files are processed and IndexChunks returns: no response
   ends the indexing before its return. *)
C27_RowsPairedWhateverEmbedBatchReturns ==
    /\ \A f \in DOMAIN files :
          ilog[f].what = "stored" =>
              /\ Len(RowsOfFile(f)) = ilog[f].chunks
              /\ \A k \in 1 .. Len(RowsOfFile(f)) :
                    /\ RowsOfFile(f)[k].idx = k - 1
                    /\ RowsOfFile(f)[k].vector = k - 1
    /\ \A f \in DOMAIN files : ilog[f].what = "short" => ipc # "panic"
    /\ ipc = "done" => \A f \in DOMAIN files : ilog[f].what # "pending"

(* C28: a stream opened on a job that was running when the handler read
   its status emits the job's terminal event once the job has terminated:
   when the terminal update has returned and the stream is in its loop,
   the terminal snapshot is in the stream's channel, also when that update
   fell between the handler's GetJob and its Subscribe. *)
C28_TerminalEventReachesStream ==
    \A h \in Handlers :
        (hpc[h] = "loop" /\ pc = "done" /\ job.Status \in {"complete", "error"}) =>
            \E k \in 1 .. Len(chans[h].buf) :
                chans[h].buf[k].job.Status \in {"complete", "error"}

(* C29: every channel StreamSSE subscribes is removed from the subscriber
   list and closed exactly once on each way out of the stream: no
   subscriber list ever contains a closed channel, no channel is closed
   twice, a stream in its loop never finds its own channel closed, and the
   step by which a subscribed stream finishes leaves its channel closed
   once and out of the list. *)
C29_ChannelRemovedAndClosedOnce ==
    /\ [](\A k \in 1 .. subsLen : ~chans[subsArr[k]].closed)
    /\ [](\A h \in Handlers :
             /\ closes[h] <= 1
             /\ chans[h].closed <=> closes[h] = 1
             /\ hpc[h] \in {"loop", "unsub"} =>
                   /\ ~chans[h].closed
                   /\ Cardinality({k \in 1 .. subsLen : subsArr[k] = h}) = 1
             /\ hpc[h] = "done" => \A k \in 1 .. subsLen : subsArr[k] # h)
    /\ [][\A h \in Handlers :
             (hpc[h] \in {"loop", "unsub"} /\ hpc'[h] = "done") =>
                 /\ closes'[h] = 1
                 /\ chans'[h].closed
                 /\ \A k \in 1 .. subsLen' : subsArr'[k] # h]_vars

(* One stream ended on its timer or on the terminal event while another
   is still subscribed. *)
C29_Witness ==
    \E g, h \in Handlers :
        /\ hpc[g] = "done" /\ closes[g] = 1
        /\ hpc[h] = "loop" /\ subsLen = 1 /\ subsArr[1] = h
        /\ Len(subsArr) >= 2

(* C30: every chunk chunkCode produces whose token count exceeds maxTokens
   has at most 4 lines (at most 3 lines of overlap and one new line), and
   every chunk after the first has more lines than it shares with the
   chunk before it. *)
C30_OversizedChunksAreShort ==
    cpc = "done" =>
        \A j \in 1 .. Len(chunks) :
            /\ WordCount(chunks[j]) > maxTokens => Len(Split(chunks[j])) <= 4
            /\ j > 1 =>
                  LET prev == Len(Split(chunks[j - 1])) IN
                  Len(Split(chunks[j])) > (IF prev < 3 THEN prev ELSE 3)

(* A chunk over the limit, of three overlap lines and one new line. *)
C30_Witness ==
    /\ cpc = "done"
    /\ \E j \in 2 .. Len(chunks) :
          /\ WordCount(chunks[j]) > maxTokens
          /\ Len(Split(chunks[j])) = 4
          /\ Len(Split(chunks[j - 1])) >= 3

====
